---- MODULE Spec2Model ----
(***************************************************************************)
(* Model of the self-standing robot firmware (Ercolino): setup(), the      *)
(* calibration procedure, readSensor() and the control cycle loop().       *)
(*                                                                         *)
(* Units.  Angles (float, degrees) are held in tenths of a degree.  The    *)
(* physical measures are held as exact numerators:                         *)
(*   accX, accZ : raw * 981, in units of 1/(100*16384) m/s^2               *)
(*   gyroYRate  : raw * 1000, in units of 1/131072 deg/s                   *)
(* The Kalman filter, the PID corrector and the motor driver are external: *)
(* their results are chosen from small sets of values.                     *)
(***************************************************************************)
EXTENDS Integers, Sequences, FiniteSets, TLC

VARIABLES
    pc,                 \* position of the single thread of control
    conn_ok,            \* result of accelgyro.testConnection()
    sample,             \* the globals ax, ay, az, gx, gy, gz (int16_t)
    offsets,            \* the globals ax_offset .. gz_offset (int32_t)
    sums,               \* calibrate()'s locals ax_sum .. gz_sum (int32_t)
    i,                  \* calibrate()'s loop counter
    startPositionIsUp,  \* orientation flag
    oldTime,            \* time of the previous cycle (unsigned long, usec)
    clock,              \* last value returned by micros()
    ledState,           \* LED variable
    tickerOn,           \* ledTicker is running
    motorsInit,         \* initMotors() has been called
    motor,              \* last action received by the motor driver
    kf,                 \* KFilter: [seeded, angle], the angle as last set
    time, dt_usec,      \* loop() locals
    gyroYRate, accX, accZ, accAngle, kalmanAngle, pidOutput,
    \* ---- environment and history (not program state) ----
    base,               \* what the sensor reads while the robot is at rest
    noise,              \* [axis, delta]: the axis disturbed during calibration
    spikes,             \* disturbed calibration samples so far
    raw,                \* last sample returned by getMotion6()
    reads,              \* sensor reads in the current cycle
    applied,            \* times the offsets were subtracted in the current cycle
    calFirst, calConst, \* first calibration sample; axes constant so far
    trueSum,            \* exact (unbounded) sums of the calibration samples
    calibCalls, calibReturned, seedCalls,
    runCalls, stopCalls,\* motor driver calls in the current cycle
    prevKind,           \* motor action of the previous cycle
    fineLeft,           \* fine advances the clock may still make
    trueGap,            \* time that passed between the last two clock reads
    lastStart,          \* clock value read by the last cycle start (or setup)
    acct,               \* first stored timestamp plus every dt_usec since
    kfCalls, pidCalls,  \* calls of the filter and the corrector in the cycle
    kfIn, pidIn         \* arguments of those calls

sampleVars == <<sample, raw, reads, applied>>
calVars    == <<offsets, sums, i, startPositionIsUp, spikes, calFirst, calConst,
                trueSum, calibCalls, calibReturned>>
timeVars   == <<oldTime, clock, time, dt_usec, fineLeft>>
histVars   == <<trueGap, lastStart, acct, kfCalls, pidCalls, kfIn, pidIn>>
ledVars    == <<ledState, tickerOn>>
motorVars  == <<motorsInit, motor, runCalls, stopCalls, prevKind>>
localVars  == <<gyroYRate, accX, accZ, accAngle, kalmanAngle, pidOutput>>
envVars    == <<base, noise>>
vars == <<pc, conn_ok, sampleVars, calVars, timeVars, ledVars, motorVars,
          kf, seedCalls, localVars, envVars, histVars>>

----------------------------------------------------------------------------
\* Bounds and constants

Axes == {"ax", "ay", "az", "gx", "gy", "gz"}
OtherAxes == Axes \ {"ax"}

\* number of calibration samples (for i < 512) and the matching shift (>>9)
NumSamples == 512
MeanShift == 9
\* full-scale reading of 1g
FullScale == 16384
\* the motors are enabled below 30 degrees
SafeAngle == 30
\* an angle in degrees, in the tenths of a degree the model holds
Deg(d) == d * 10
\* most calibration samples that may deviate from the rest reading
MaxSpikes == 1
\* most advances of the clock that are not multiples of 2^31 usec
MaxFine == 2

\* the value an int16_t holds after being assigned x
Wrap16(x) == ((x + 32768) % 65536) - 32768

\* unsigned long (32 bits) as two 16-bit halves; a - b modulo 2^32
U32(h, l) == [hi |-> h, lo |-> l]
LessU32(a, b) == a.hi < b.hi \/ (a.hi = b.hi /\ a.lo < b.lo)
SubU32_Saturating(a, b) ==
    IF LessU32(a, b) THEN U32(0, 0)
    ELSE U32((a.hi - b.hi - (IF a.lo < b.lo THEN 1 ELSE 0)) % 65536,
             (a.lo - b.lo) % 65536)
SubU32(a, b) ==
    LET borrow == IF a.lo < b.lo THEN 1 ELSE 0
    IN  U32((a.hi - b.hi - borrow) % 65536, (a.lo - b.lo) % 65536)
AddU32(a, b) ==
    LET carry == IF a.lo + b.lo >= 65536 THEN 1 ELSE 0
    IN  U32((a.hi + b.hi + carry) % 65536, (a.lo + b.lo) % 65536)

\* float(x) of an unsigned long: 24 significant bits, round to nearest even;
\* the result may be 2^32, held as hi = 65536
ToFloat(d) ==
    LET s == CHOOSE k \in 0..8 : d.hi < 2 ^ (8 + k) /\ (k = 0 \/ d.hi >= 2 ^ (7 + k))
        q == 2 ^ s
        r == d.lo % q
        down == d.lo - r
        up == 2 * r > q \/ (2 * r = q /\ (down \div q) % 2 = 1)
        lo2 == IF up THEN down + q ELSE down
    IN  IF lo2 = 65536 THEN U32(d.hi + 1, 0) ELSE U32(d.hi, lo2)

dt_sec_Clamped(d) == IF d.hi > 0 THEN U32(0, 65535) ELSE ToFloat(d)

\* float dt_sec = float(dt_usec) / 1000000.0f;  (held in microseconds)
dt_sec(d) == ToFloat(d)

\* x >> n on a signed 32-bit value (arithmetic shift)
Shr(x, n) == x \div (2 ^ n)

\* Arduino's abs macro: ((x)>0?(x):-(x))
abs(x) == IF x > 0 THEN x ELSE -x

Zero6 == [a \in Axes |-> 0]
Six(x, y, z, p, q, r) ==
    [a \in Axes |-> CASE a = "ax" -> x [] a = "ay" -> y [] a = "az" -> z
                      [] a = "gx" -> p [] a = "gy" -> q [] a = "gz" -> r]

\* rest readings the sensor may give
RestReadings ==
    { Six(-16200, 0, 0, 0, 0, 0),
      Six(16384, -32768, 32767, -1, 1, 100),
      Six(0, 1, -1, 32767, -32768, -7),
      Six(1, 300, -300, 5, -5, 0),
      Six(-32768, -2, 2, -100, 40, 32767) }

NoisyAxes == {"ax", "gy"}
NoNoise == [axis |-> "none", delta |-> 0]
Noises == {NoNoise} \cup [axis : NoisyAxes, delta : {-1, 1}]

\* readings the sensor may give while the robot moves
MovingReadings ==
    { Six(32767, -32768, 0, -1, 32767, 1) }

\* values the external Kalman filter may return (tenths of a degree)
AngleVals == {-900, -300, -299, 0, 20, 299, 300, 450}
\* values the external PID corrector may return
PidVals == {-255, 0, 255}
\* values of the microsecond counter, and its advances between two reads
ClockVals == {U32(0, 0), U32(32768, 0)}

\* other advances, while fineLeft allows: 15 ms, and 2^32 - 1 usec
FineVals == {U32(0, 15000), U32(65535, 65535)}
\* the rest reading under which the clock is followed finely
TimingBase == Six(16384, -32768, 32767, -1, 1, 100)

NoMotor == [kind |-> "none", cmd |-> 0]
NoCall == [called |-> FALSE]

----------------------------------------------------------------------------
InitRest ==
    /\ conn_ok = FALSE
    /\ sample = Zero6
    /\ offsets = Zero6
    /\ sums = Zero6
    /\ i = 0
    /\ startPositionIsUp = FALSE
    /\ oldTime = U32(0, 0)
    /\ clock = U32(0, 0)
    /\ ledState = FALSE
    /\ tickerOn = FALSE
    /\ motorsInit = FALSE
    /\ motor = NoMotor
    /\ kf = [seeded |-> FALSE, angle |-> 0]
    /\ time = U32(0, 0) /\ dt_usec = U32(0, 0)
    /\ gyroYRate = 0 /\ accAngle = 0
    /\ kalmanAngle = 0 /\ pidOutput = 0
    /\ base \in RestReadings
    /\ noise \in Noises
    /\ spikes = 0
    /\ raw = Zero6
    /\ reads = 0
    /\ applied = 0
    /\ calFirst = Zero6
    /\ calConst = [a \in Axes |-> TRUE]
    /\ trueSum = Zero6
    /\ calibCalls = 0 /\ calibReturned = FALSE /\ seedCalls = 0
    /\ runCalls = 0 /\ stopCalls = 0
    /\ prevKind = "none"
    /\ fineLeft \in (IF base = TimingBase /\ noise = NoNoise
                     THEN {0, MaxFine} ELSE {0})
    /\ trueGap = U32(0, 0)
    /\ lastStart = U32(0, 0)
    /\ acct = U32(0, 0)
    /\ kfCalls = 0 /\ pidCalls = 0
    /\ kfIn = NoCall /\ pidIn = NoCall

Init ==
    /\ pc = "setup"
    /\ accX = 0 /\ accZ = 0
    /\ InitRest

----------------------------------------------------------------------------
\* The sensor and the clock (environment)

\* what accelgyro.getMotion6 may return during calibration
CalReadings ==
    {base} \cup
    { r \in { [base EXCEPT ![a] = @ + noise.delta] : a \in NoisyAxes } :
          /\ noise.axis # "none"
          /\ spikes < MaxSpikes
          /\ r = [base EXCEPT ![noise.axis] = @ + noise.delta]
          /\ r[noise.axis] \in -32768..32767
          /\ r # base }

\* what accelgyro.getMotion6 may return in the control loop
LoopReadings == {base} \cup MovingReadings

\* by how much the clock may have advanced since it was last read
Advances == ClockVals \cup (IF fineLeft > 0 THEN FineVals ELSE {})

\* what micros() may return
MicrosVals == { AddU32(clock, d) : d \in Advances }

----------------------------------------------------------------------------
\* calibrate()

Mean_Truncating(s) == IF s >= 0 THEN s \div 512 ELSE -((-s) \div 512)
Mean_Shift8(s) == Shr(s, MeanShift - 1)

\* sum >> 9
Mean(s) == Shr(s, MeanShift)

StartIsUp_OrZero(m) == m >= 0

\* if (ax_offset > 0)
StartIsUp(m) == m > 0

GravityOffset_AlwaysUp(m) == m - FullScale
GravityOffset_Swapped(m) == IF m > 0 THEN m + FullScale ELSE m - FullScale

\* ax_offset -= 16384  or  ax_offset += 16384
GravityOffset(m) == IF m > 0 THEN m - FullScale ELSE m + FullScale

\* one iteration of the for loop
Calibrate_Sample ==
    /\ pc = "calibrate"
    /\ i < NumSamples
    /\ \E blink \in BOOLEAN :
          ledState' = IF blink /\ tickerOn THEN ~ledState ELSE ledState
    /\ \E r \in CalReadings :
          /\ sample' = r
          /\ raw' = r
          /\ UNCHANGED <<reads, applied>>
          /\ sums' = [a \in Axes |-> sums[a] + r[a]]
          /\ trueSum' = [a \in Axes |-> trueSum[a] + r[a]]
          /\ spikes' = IF r = base THEN spikes ELSE spikes + 1
          /\ calFirst' = IF i = 0 THEN r ELSE calFirst
          /\ calConst' = IF i = 0 THEN calConst
                         ELSE [a \in Axes |-> calConst[a] /\ r[a] = calFirst[a]]
    /\ i' = i + 1
    /\ UNCHANGED <<pc, conn_ok, offsets, startPositionIsUp, calibCalls,
                   calibReturned, timeVars, tickerOn, motorVars, kf, seedCalls,
                   localVars, envVars, histVars>>

\* a loop whose end is never noticed
Calibrate_Finish_OffByOne ==
    /\ pc = "calibrate"
    /\ i > NumSamples
    /\ offsets' = [a \in Axes |-> IF a = "ax" THEN GravityOffset(Mean(sums[a]))
                                  ELSE Mean(sums[a])]
    /\ startPositionIsUp' = StartIsUp(Mean(sums["ax"]))
    /\ calibReturned' = TRUE
    /\ pc' = "seed"
    /\ UNCHANGED <<conn_ok, sampleVars, sums, i, spikes, calFirst, calConst,
                   trueSum, calibCalls, timeVars, ledVars, motorVars, kf,
                   seedCalls, localVars, envVars, histVars>>

\* the loop has ended: offsets, orientation, return
Calibrate_Finish ==
    /\ pc = "calibrate"
    /\ ~(i < NumSamples)
    /\ offsets' = [a \in Axes |-> IF a = "ax" THEN GravityOffset(Mean(sums[a]))
                                  ELSE Mean(sums[a])]
    /\ startPositionIsUp' = StartIsUp(Mean(sums["ax"]))
    /\ calibReturned' = TRUE
    /\ pc' = "seed"
    /\ UNCHANGED <<conn_ok, sampleVars, sums, i, spikes, calFirst, calConst,
                   trueSum, calibCalls, timeVars, ledVars, motorVars, kf,
                   seedCalls, localVars, envVars, histVars>>

----------------------------------------------------------------------------
\* setup()

\* Wire.begin() .. accelgyro.initialize()
Setup_Begin ==
    /\ pc = "setup"
    /\ motorsInit' = TRUE
    /\ pc' = "testConnection"
    /\ UNCHANGED <<conn_ok, sampleVars, calVars, timeVars, ledVars, motor,
                   runCalls, stopCalls, prevKind, kf, seedCalls, localVars,
                   envVars, histVars>>

Setup_TestConnection_NoHalt ==
    /\ pc = "testConnection"
    /\ \E ok \in BOOLEAN :
          /\ conn_ok' = ok
          /\ pc' = "startCalibration"
    /\ UNCHANGED <<sampleVars, calVars, timeVars, ledVars, motorVars, kf,
                   seedCalls, localVars, envVars, histVars>>

\* bool conn_ok = accelgyro.testConnection(); if (not conn_ok) while(1);
Setup_TestConnection ==
    /\ pc = "testConnection"
    /\ \E ok \in BOOLEAN :
          /\ conn_ok' = ok
          /\ pc' = IF ok THEN "startCalibration" ELSE "halt"
    /\ UNCHANGED <<sampleVars, calVars, timeVars, ledVars, motorVars, kf,
                   seedCalls, localVars, envVars, histVars>>

\* while(1);
Setup_Halt ==
    /\ pc = "halt"
    /\ UNCHANGED vars

\* ledTicker.start(); delay(3000); calibrate() is entered
Setup_StartCalibration ==
    /\ pc = "startCalibration"
    /\ tickerOn' = TRUE
    /\ calibCalls' = calibCalls + 1
    /\ sums' = Zero6
    /\ i' = 0
    /\ pc' = "calibrate"
    /\ UNCHANGED <<conn_ok, sampleVars, offsets, startPositionIsUp, spikes,
                   calFirst, calConst, trueSum, calibReturned, timeVars,
                   ledState, motorVars, kf, seedCalls, localVars, envVars, histVars>>

StartAngle_Swapped(up) == IF up THEN -Deg(90) ELSE Deg(90)

\* float startAngle = (startPositionIsUp == true) ? +90.0f : -90.0f;
StartAngle(up) == IF up THEN Deg(90) ELSE -Deg(90)

\* ledTicker.stop(); turnOffLed(); KFilter = Kalman(); KFilter.setAngle(startAngle)
Setup_SeedKalman ==
    /\ pc = "seed"
    /\ tickerOn' = FALSE
    /\ ledState' = FALSE
    /\ kf' = [seeded |-> TRUE, angle |-> StartAngle(startPositionIsUp)]
    /\ seedCalls' = seedCalls + 1
    /\ pc' = "menu"
    /\ UNCHANGED <<conn_ok, sampleVars, calVars, timeVars, motorVars,
                   localVars, envVars, histVars>>

\* delay(3000); if (Serial.available()) setup_menu();
\* the menu edits the corrector's gains, which are not part of this model
Setup_Menu ==
    /\ pc = "menu"
    /\ \E available \in BOOLEAN : pc' = "finish"
    /\ UNCHANGED <<conn_ok, sampleVars, calVars, timeVars, ledVars, motorVars,
                   kf, seedCalls, localVars, envVars, histVars>>

\* oldTime = micros(); turnOnLed(); setup() returns and loop() is called
Setup_Finish ==
    /\ pc = "finish"
    /\ \E d \in Advances :
          /\ clock' = AddU32(clock, d)
          /\ oldTime' = AddU32(clock, d)
          /\ lastStart' = AddU32(clock, d)
          /\ acct' = AddU32(clock, d)
          /\ fineLeft' = IF d \in ClockVals THEN fineLeft ELSE fineLeft - 1
    /\ ledState' = TRUE
    /\ pc' = "loop"
    /\ UNCHANGED <<conn_ok, sampleVars, calVars, time, dt_usec, tickerOn,
                   motorVars, kf, seedCalls, localVars, envVars, trueGap,
                   kfCalls, pidCalls, kfIn, pidIn>>

----------------------------------------------------------------------------
\* readSensor() and getAccAngle()

Corrected_NoOffsets(r, off) == r

\* ax -= ax_offset; ... gz -= gz_offset;  (int16_t -= int32_t)
Corrected(r, off) == [a \in Axes |-> Wrap16(r[a] - off[a])]

\* atan(p/q) for 0 <= p <= q, 0 < q, in tenths of a degree:
\* 45 z + 15.6 z (1 - z) degrees, z = p/q held in thousandths
AtanUnit(p, q) ==
    LET z0 == IF p <= 2000000 THEN (p * 1000) \div q ELSE p \div (q \div 1000)
        z  == IF z0 > 1000 THEN 1000 ELSE z0
    IN  (450 * z + (156 * z * (1000 - z)) \div 1000) \div 1000

\* atan2(y, x) * RAD_TO_DEG in tenths of a degree; xNegZero: x is -0.0
Atan2(y, x, xNegZero) ==
    LET a == abs(y)
        b == abs(x)
        t == IF a = 0 /\ b = 0 THEN 0
             ELSE IF a <= b THEN AtanUnit(a, b)
             ELSE Deg(90) - AtanUnit(b, a)
    IN  IF x > 0 THEN (IF y < 0 THEN -t ELSE t)
        ELSE IF x < 0 THEN (IF y < 0 THEN -(Deg(180) - t) ELSE Deg(180) - t)
        ELSE IF y > 0 THEN Deg(90)
        ELSE IF y < 0 THEN -Deg(90)
        ELSE IF xNegZero THEN Deg(180) ELSE 0

getAccAngle_NoNegation(x, z) == Atan2(x, z, FALSE)

\* float angle = (atan2(accX, -accZ)) * RAD_TO_DEG;
getAccAngle(x, z) == Atan2(x, -z, z = 0)

----------------------------------------------------------------------------
\* loop()

GateOpen_Inclusive(angle) == abs(angle) <= Deg(SafeAngle)
GateOpen_NoAbs(angle) == angle < Deg(SafeAngle)

\* if (abs(kalmanAngle) < 30)
GateOpen(angle) == abs(angle) < Deg(SafeAngle)

\* unsigned long time = micros(); unsigned long dt_usec = time - oldTime;
Loop_Begin ==
    /\ pc = "loop"
    /\ \E d \in Advances :
          /\ clock' = AddU32(clock, d)
          /\ time' = AddU32(clock, d)
          /\ dt_usec' = SubU32(AddU32(clock, d), oldTime)
          /\ trueGap' = d
          /\ lastStart' = AddU32(clock, d)
          /\ fineLeft' = IF d \in ClockVals THEN fineLeft ELSE fineLeft - 1
    /\ acct' = AddU32(acct, dt_usec')
    /\ runCalls' = 0
    /\ stopCalls' = 0
    /\ reads' = 0
    /\ applied' = 0
    /\ kfCalls' = 0 /\ pidCalls' = 0
    /\ kfIn' = NoCall /\ pidIn' = NoCall
    /\ pc' = "readSensor"
    /\ UNCHANGED <<conn_ok, sample, raw, calVars, oldTime, ledVars, motorsInit,
                   motor, prevKind, kf, seedCalls, localVars, envVars>>

\* a readSensor() that subtracts the wrong way round
Loop_ReadSensor_IntoOffsets ==
    /\ pc = "readSensor"
    /\ \E r \in LoopReadings :
          /\ raw' = r
          /\ sample' = r
          /\ offsets' = [a \in Axes |-> offsets[a] - r[a]]
    /\ reads' = reads + 1
    /\ applied' = applied + 1
    /\ pc' = "observe"
    /\ UNCHANGED <<conn_ok, sums, i, startPositionIsUp, spikes, calFirst,
                   calConst, trueSum, calibCalls, calibReturned, timeVars,
                   ledVars, motorVars, kf, seedCalls, localVars, envVars,
                   histVars>>

\* readSensor();
Loop_ReadSensor ==
    /\ pc = "readSensor"
    /\ \E r \in LoopReadings :
          /\ raw' = r
          /\ sample' = Corrected(r, offsets)
    /\ reads' = reads + 1
    /\ applied' = applied + 1
    /\ pc' = "observe"
    /\ UNCHANGED <<conn_ok, calVars, timeVars, ledVars, motorVars, kf,
                   seedCalls, localVars, envVars, histVars>>

\* gyroYRate, accX, accZ and accAngle = getAccAngle(accX, accZ)
Loop_Observe ==
    /\ pc = "observe"
    /\ gyroYRate' = sample["gy"] * 1000
    /\ accX' = sample["ax"] * 981
    /\ accZ' = sample["az"] * 981
    /\ accAngle' = getAccAngle(sample["ax"] * 981, sample["az"] * 981)
    /\ pc' = "fusion"
    /\ UNCHANGED <<conn_ok, sampleVars, calVars, timeVars, ledVars, motorVars,
                   kf, seedCalls, kalmanAngle, pidOutput, envVars, histVars>>

\* float kalmanAngle = KFilter.getAngle(accAngle, gyroYRate, dt_sec);
Loop_Fusion ==
    /\ pc = "fusion"
    /\ \E k \in AngleVals : kalmanAngle' = k
    /\ kfCalls' = kfCalls + 1
    /\ kfIn' = [called |-> TRUE, angle |-> accAngle, rate |-> gyroYRate,
                dt |-> dt_sec(dt_usec)]
    /\ pc' = "corrector"
    /\ UNCHANGED <<conn_ok, sampleVars, calVars, timeVars, ledVars, motorVars,
                   kf, seedCalls, gyroYRate, accX, accZ, accAngle, pidOutput,
                   envVars, trueGap, lastStart, acct, pidCalls, pidIn>>

\* a corrector that is only updated when the motors are enabled
Loop_Corrector_OnlyInRange ==
    /\ pc = "corrector"
    /\ IF abs(kalmanAngle) < Deg(SafeAngle)
       THEN /\ \E u \in PidVals : pidOutput' = u
            /\ pidCalls' = pidCalls + 1
            /\ pidIn' = [called |-> TRUE, angle |-> kalmanAngle,
                         dt |-> dt_sec(dt_usec)]
       ELSE UNCHANGED <<pidOutput, pidCalls, pidIn>>
    /\ pc' = "gate"
    /\ UNCHANGED <<conn_ok, sampleVars, calVars, timeVars, ledVars, motorVars,
                   kf, seedCalls, gyroYRate, accX, accZ, accAngle, kalmanAngle,
                   envVars, trueGap, lastStart, acct, kfCalls, kfIn>>

\* float pidOutput = updatePID(kalmanAngle, dt_sec);
Loop_Corrector ==
    /\ pc = "corrector"
    /\ \E u \in PidVals : pidOutput' = u
    /\ pidCalls' = pidCalls + 1
    /\ pidIn' = [called |-> TRUE, angle |-> kalmanAngle, dt |-> dt_sec(dt_usec)]
    /\ pc' = "gate"
    /\ UNCHANGED <<conn_ok, sampleVars, calVars, timeVars, ledVars, motorVars,
                   kf, seedCalls, gyroYRate, accX, accZ, accAngle, kalmanAngle,
                   envVars, trueGap, lastStart, acct, kfCalls, kfIn>>

\* a gate that stays shut once it has stopped the motors
Loop_Gate_Latched ==
    /\ pc = "gate"
    /\ IF GateOpen(kalmanAngle) /\ motor.kind # "stop"
       THEN /\ motor' = [kind |-> "run", cmd |-> pidOutput]
            /\ runCalls' = runCalls + 1
            /\ UNCHANGED stopCalls
       ELSE /\ motor' = [kind |-> "stop", cmd |-> 0]
            /\ stopCalls' = stopCalls + 1
            /\ UNCHANGED runCalls
    /\ prevKind' = motor.kind
    /\ pc' = "endCycle"
    /\ UNCHANGED <<conn_ok, sampleVars, calVars, timeVars, ledVars, motorsInit,
                   kf, seedCalls, localVars, envVars, histVars>>

\* a gate that stops the motors before it decides
Loop_Gate_StopFirst ==
    /\ pc = "gate"
    /\ stopCalls' = stopCalls + 1
    /\ IF GateOpen(kalmanAngle)
       THEN /\ motor' = [kind |-> "run", cmd |-> pidOutput]
            /\ runCalls' = runCalls + 1
       ELSE /\ motor' = [kind |-> "stop", cmd |-> 0]
            /\ UNCHANGED runCalls
    /\ prevKind' = motor.kind
    /\ pc' = "endCycle"
    /\ UNCHANGED <<conn_ok, sampleVars, calVars, timeVars, ledVars, motorsInit,
                   kf, seedCalls, localVars, envVars, histVars>>

\* if (abs(kalmanAngle) < 30) runMotors(pidOutput); else stopMotors();
Loop_Gate ==
    /\ pc = "gate"
    /\ IF GateOpen(kalmanAngle)
       THEN /\ motor' = [kind |-> "run", cmd |-> pidOutput]
            /\ runCalls' = runCalls + 1
            /\ UNCHANGED stopCalls
       ELSE /\ motor' = [kind |-> "stop", cmd |-> 0]
            /\ stopCalls' = stopCalls + 1
            /\ UNCHANGED runCalls
    /\ prevKind' = motor.kind
    /\ pc' = "endCycle"
    /\ UNCHANGED <<conn_ok, sampleVars, calVars, timeVars, ledVars, motorsInit,
                   kf, seedCalls, localVars, envVars, histVars>>

\* a cycle that ends by calibrating again
Loop_End_Recalibrate ==
    /\ pc = "endCycle"
    /\ oldTime' = time
    /\ time' = U32(0, 0) /\ dt_usec' = U32(0, 0)
    /\ gyroYRate' = 0 /\ accX' = 0 /\ accZ' = 0 /\ accAngle' = 0
    /\ kalmanAngle' = 0 /\ pidOutput' = 0
    /\ trueGap' = U32(0, 0)
    /\ kfCalls' = 0 /\ pidCalls' = 0
    /\ kfIn' = NoCall /\ pidIn' = NoCall
    /\ pc' = "startCalibration"
    /\ UNCHANGED <<conn_ok, sampleVars, calVars, clock, fineLeft, ledVars,
                   motorVars, kf, seedCalls, envVars, lastStart, acct>>

\* a cycle that stores a timestamp taken at its end
Loop_End_LateStamp ==
    /\ \E d \in ClockVals : clock' = AddU32(clock, d)
    /\ pc = "endCycle"
    /\ oldTime' = clock'
    /\ time' = U32(0, 0) /\ dt_usec' = U32(0, 0)
    /\ gyroYRate' = 0 /\ accX' = 0 /\ accZ' = 0 /\ accAngle' = 0
    /\ kalmanAngle' = 0 /\ pidOutput' = 0
    /\ trueGap' = U32(0, 0)
    /\ kfCalls' = 0 /\ pidCalls' = 0
    /\ kfIn' = NoCall /\ pidIn' = NoCall
    /\ pc' = "loop"
    /\ UNCHANGED <<conn_ok, sampleVars, calVars, fineLeft, ledVars,
                   motorVars, kf, seedCalls, envVars, lastStart, acct>>

\* the diagnostic line; oldTime = time; delay(15); loop() returns
Loop_End ==
    /\ pc = "endCycle"
    /\ oldTime' = time
    /\ time' = U32(0, 0) /\ dt_usec' = U32(0, 0)
    /\ gyroYRate' = 0 /\ accX' = 0 /\ accZ' = 0 /\ accAngle' = 0
    /\ kalmanAngle' = 0 /\ pidOutput' = 0
    /\ trueGap' = U32(0, 0)
    /\ kfCalls' = 0 /\ pidCalls' = 0
    /\ kfIn' = NoCall /\ pidIn' = NoCall
    /\ pc' = "loop"
    /\ UNCHANGED <<conn_ok, sampleVars, calVars, clock, fineLeft, ledVars,
                   motorVars, kf, seedCalls, envVars, lastStart, acct>>

----------------------------------------------------------------------------
Next ==
    \/ Setup_Begin
    \/ Setup_TestConnection
    \/ Setup_Halt
    \/ Setup_StartCalibration
    \/ Calibrate_Sample
    \/ Calibrate_Finish
    \/ Setup_SeedKalman
    \/ Setup_Menu
    \/ Setup_Finish
    \/ Loop_Begin
    \/ Loop_ReadSensor
    \/ Loop_Observe
    \/ Loop_Fusion
    \/ Loop_Corrector
    \/ Loop_Gate
    \/ Loop_End

Spec == Init /\ [][Next]_vars

\* getAccAngle() on its own: the accelerations it is applied to
\* (1 m/s^2 is 1638400 units; one raw count is 981; 1 g is 16384 counts)
AccVals == {0, 981, -981, 1638400, -1638400, 16384 * 981, -16384 * 981,
            32767 * 981, -32768 * 981}

AngleInit ==
    /\ pc = "getAccAngle"
    /\ accX \in AccVals
    /\ accZ \in AccVals
    /\ InitRest
    /\ base = TimingBase /\ noise = NoNoise /\ fineLeft = 0

\* float accAngle = getAccAngle(accX, accZ);
ApplyGetAccAngle ==
    /\ pc = "getAccAngle"
    /\ accAngle' = getAccAngle(accX, accZ)
    /\ pc' = "angleDone"
    /\ UNCHANGED <<conn_ok, sampleVars, calVars, timeVars, ledVars, motorVars,
                   kf, seedCalls, gyroYRate, accX, accZ, kalmanAngle, pidOutput,
                   envVars, histVars>>

AngleNext == ApplyGetAccAngle

AngleSpec == AngleInit /\ [][AngleNext]_vars

\* startup from every rest reading, undisturbed, with the coarse clock
StartupInit == Init /\ noise = NoNoise /\ fineLeft = 0

\* the processor keeps executing: every delay is bounded
FairSpec == StartupInit /\ [][Next]_vars /\ WF_vars(Next)

----------------------------------------------------------------------------
\* Properties

LoopPcs == {"loop", "readSensor", "observe", "fusion", "corrector", "gate",
            "endCycle"}
InLoop == pc \in LoopPcs

\* the fused angle is outside (-30, 30) degrees
OutOfRange(angle) == angle >= 300 \/ angle <= -300

\* the state of the control cycle driver
DriverState ==
    IF pc \in {"setup", "testConnection", "halt"} THEN "UNINITIALIZED"
    ELSE IF pc \in LoopPcs THEN "STABILIZING"
    ELSE "CALIBRATING"
Rank(st) == CASE st = "UNINITIALIZED" -> 0
              [] st = "CALIBRATING" -> 1
              [] st = "STABILIZING" -> 2

\* C1: in a cycle whose fused angle is 30 degrees or more from the vertical
\* the gate calls stopMotors() and does not call runMotors(), whatever the
\* corrector returned; no step of the program calls runMotors() while the
\* fused angle of the cycle is outside (-30, 30).
C1_StopOutsideRange ==
    [][ /\ (pc = "gate" /\ OutOfRange(kalmanAngle)) =>
             /\ motor'.kind = "stop"
             /\ stopCalls' = stopCalls + 1
             /\ runCalls' = runCalls
        /\ (runCalls' > runCalls \/ (motor' # motor /\ motor'.kind = "run")) =>
             /\ pc = "gate"
             /\ ~OutOfRange(kalmanAngle) ]_vars

C1_Witness ==
    /\ pc = "endCycle"
    /\ kalmanAngle = 300
    /\ pidOutput = 255
    /\ motor.kind = "stop"
    /\ runCalls = 0

\* C2: a cycle that follows a stop stops again while the fused angle is still
\* out of range, and forwards the corrector output as soon as the fused angle
\* is back inside (-30, 30): the gate keeps no memory of the stop.  Outside
\* the gate no step of the cycle changes what the motors were told.
C2_StopUntilBackInRange ==
    [][ /\ (pc = "gate" /\ motor.kind = "stop" /\ OutOfRange(kalmanAngle)) =>
             /\ motor'.kind = "stop"
             /\ runCalls' = 0
        /\ (pc = "gate" /\ motor.kind = "stop" /\ ~OutOfRange(kalmanAngle)) =>
             /\ motor' = [kind |-> "run", cmd |-> pidOutput]
             /\ runCalls' = 1
             /\ stopCalls' = 0
        /\ (InLoop /\ pc # "gate") => motor' = motor ]_vars

C2_Witness ==
    /\ pc = "endCycle"
    /\ prevKind = "stop"
    /\ motor = [kind |-> "run", cmd |-> 255]
    /\ kalmanAngle = 299

\* C3: after the gate, the motors have been given exactly the corrector output
\* of the cycle if the fused angle is strictly inside (-30, 30), and have been
\* stopped otherwise; 30 and -30 stop.  The action is a function of the fused
\* angle and the corrector output alone.
C3_GateDecision ==
    pc = "endCycle" =>
        /\ (kalmanAngle > -300 /\ kalmanAngle < 300) =>
              /\ motor = [kind |-> "run", cmd |-> pidOutput]
              /\ runCalls = 1 /\ stopCalls = 0
        /\ ~(kalmanAngle > -300 /\ kalmanAngle < 300) =>
              /\ motor = [kind |-> "stop", cmd |-> 0]
              /\ runCalls = 0 /\ stopCalls = 1
        /\ kalmanAngle \in {300, -300} => motor.kind = "stop"

C3_Witness ==
    /\ pc = "endCycle"
    /\ kalmanAngle = -299
    /\ pidOutput = -255
    /\ motor = [kind |-> "run", cmd |-> -255]

\* C4: the values the accelerometer angle and the gyroscopic rate are computed
\* from are those of the one sample read in the same cycle, each stored as
\* int16_t after the offset of its axis has been subtracted exactly once.
C4_OffsetsApplied ==
    /\ pc \in {"observe", "fusion", "corrector", "gate", "endCycle"} =>
          /\ reads = 1
          /\ applied = 1
          /\ \A a \in Axes : sample[a] = Wrap16(raw[a] - offsets[a])
    /\ pc \in {"fusion", "corrector", "gate", "endCycle"} =>
          /\ accX = 981 * Wrap16(raw["ax"] - offsets["ax"])
          /\ accZ = 981 * Wrap16(raw["az"] - offsets["az"])
          /\ gyroYRate = 1000 * Wrap16(raw["gy"] - offsets["gy"])

C4_Witness ==
    /\ pc = "fusion"
    /\ offsets["ax"] = 184
    /\ raw["ax"] = -16200
    /\ accX = 981 * (-16384)
    /\ applied = 1

\* C5: when the connectivity check fails the program enters while(1) and stays
\* there: the blink is not started, calibrate() is not called, the Kalman
\* filter is not seeded, no control cycle runs, the motors get no command.
C5_HaltOnConnectionFailure ==
    [][ /\ (pc = "testConnection" /\ ~conn_ok') => pc' = "halt"
        /\ pc = "halt" => pc' = "halt"
        /\ pc' = "halt" =>
             /\ ~conn_ok'
             /\ ~tickerOn' /\ ~ledState'
             /\ calibCalls' = 0 /\ i' = 0 /\ offsets' = Zero6
             /\ seedCalls' = 0 /\ ~kf'.seeded
             /\ motor' = NoMotor /\ runCalls' = 0 /\ stopCalls' = 0
        /\ (~conn_ok' /\ pc' \notin {"setup", "testConnection"}) =>
             pc' = "halt" ]_vars

C5_Witness ==
    /\ pc = "halt"
    /\ ~conn_ok
    /\ motorsInit

\* C6: the driver's states are entered in the order UNINITIALIZED,
\* CALIBRATING, STABILIZING and never left backwards; calibrate() is called
\* once, after the connectivity check succeeded and outside the control loop;
\* a control cycle runs only after calibrate() has returned.
C6_StateOrder ==
    [][ /\ Rank(DriverState') >= Rank(DriverState)
        /\ calibCalls' > calibCalls =>
             /\ conn_ok
             /\ calibCalls = 0
             /\ ~InLoop
        /\ calibReturned' => calibCalls' = 1
        /\ InLoop' => (calibCalls' = 1 /\ calibReturned' /\ i' = NumSamples)
        /\ DriverState' = "CALIBRATING" => conn_ok' ]_vars

C6_Witness ==
    /\ pc = "endCycle"
    /\ calibCalls = 1
    /\ calibReturned
    /\ prevKind # "none"

\* C7: when all 512 calibration samples of ay, az, gx, gy or gz have the one
\* value v, calibrate() sets the offset of that axis to v; 512 equal samples
\* of any 16-bit value v sum to a value whose mean is v.
C7_ConstantAxisOffset ==
    /\ calibReturned =>
          \A a \in OtherAxes : calConst[a] => offsets[a] = calFirst[a]
    /\ pc = "setup" =>
          \A v \in -32768..32767 : Mean(NumSamples * v) = v

C7_Witness ==
    /\ calibReturned
    /\ \A a \in OtherAxes : calConst[a]
    /\ offsets["ay"] = -32768
    /\ offsets["az"] = 32767
    /\ offsets["gx"] = -1
    /\ offsets["gy"] = 1
    /\ offsets["gz"] = 100

\* C8: after calibrate() the orientation flag is true exactly when the mean of
\* the 512 ax samples (their sum divided by 512, rounded down, as calibrate()
\* computes it) is greater than 0; a mean of 0 gives false.
C8_OrientationFlag ==
    calibReturned =>
        /\ startPositionIsUp = ((trueSum["ax"] \div 512) > 0)
        /\ (trueSum["ax"] \div 512) = 0 => ~startPositionIsUp

C8_Witness ==
    /\ calibReturned
    /\ trueSum["ax"] = 0
    /\ ~startPositionIsUp

\* the calibration of C9: ax = -16200 and 0 elsewhere in all 512 samples
C9_Calibrated ==
    /\ calibReturned
    /\ i = 512
    /\ calFirst = Six(-16200, 0, 0, 0, 0, 0)
    /\ \A a \in Axes : calConst[a]

\* C9 as stated: that calibration gives ax_offset = 200, orientation down and
\* a seed angle of -90 degrees.
C9_Original ==
    C9_Calibrated =>
        /\ offsets["ax"] = 200
        /\ ~startPositionIsUp
        /\ kf.seeded => kf.angle = -900

\* C9, amended: that calibration gives ax_offset = 184 (-16200 + 16384),
\* orientation down, and a seed angle of -90 degrees once the filter is seeded.
C9_Scenario ==
    C9_Calibrated =>
        /\ offsets["ax"] = 184
        /\ \A a \in OtherAxes : offsets[a] = 0
        /\ ~startPositionIsUp
        /\ kf.seeded => kf.angle = -900

C9_Witness ==
    /\ C9_Calibrated
    /\ kf.seeded
    /\ kf.angle = -900
    /\ offsets["ax"] = 184

\* C10: the Kalman filter's angle is set once, after calibrate() has returned
\* and before the first control cycle, to +90 degrees if the orientation flag
\* is up and to -90 if it is down; every control cycle runs on a seeded filter
\* and no step of the control loop sets the angle again.
C10_SeededOnce ==
    [][ /\ seedCalls' > seedCalls =>
             /\ calibReturned
             /\ seedCalls = 0
             /\ ~InLoop
             /\ kf'.seeded
             /\ kf'.angle = IF startPositionIsUp THEN 900 ELSE -900
        /\ InLoop' => (seedCalls' = 1 /\ kf'.seeded)
        /\ InLoop => (seedCalls' = seedCalls /\ kf' = kf)
        /\ kf' # kf => seedCalls' = seedCalls + 1 ]_vars

C10_Witness ==
    /\ pc = "readSensor"
    /\ seedCalls = 1
    /\ startPositionIsUp
    /\ kf = [seeded |-> TRUE, angle |-> 900]

\* the positions of loop() after its first step
CyclePcs == LoopPcs \ {"loop"}

\* C11: when a cycle has ended, oldTime is the clock value that cycle read at
\* its start; so each dt_usec is the difference of two consecutive start
\* timestamps, and the first stored timestamp plus all the elapsed times so
\* far (modulo 2^32) is the start timestamp of the current or last cycle.
C11_StartTimestampStored ==
    /\ pc = "loop" =>
          /\ oldTime = lastStart
          /\ acct = lastStart
    /\ pc \in CyclePcs =>
          /\ time = lastStart
          /\ acct = time
          /\ AddU32(oldTime, dt_usec) = lastStart

C11_Witness ==
    /\ pc = "loop"
    /\ prevKind # "none"
    /\ oldTime = U32(0, 14999)
    /\ oldTime = lastStart
    /\ acct = lastStart

\* C18: the elapsed time of a cycle is an unsigned 32-bit value, never
\* negative, equal to the time that passed between the two clock reads (less
\* than 2^32 usec), also when the counter wrapped in between; the filter gets
\* it unclamped, as float(dt_usec), exact below 2^24 usec, zero included.
C18_ElapsedAcrossWrap ==
    pc \in CyclePcs =>
        /\ dt_usec.hi \in 0..65535
        /\ dt_usec.lo \in 0..65535
        /\ dt_usec = trueGap
        /\ kfIn.called =>
              /\ kfIn.dt.hi \in {trueGap.hi, trueGap.hi + 1}
              /\ kfIn.dt.hi = trueGap.hi =>
                    kfIn.dt.lo - trueGap.lo \in -128..128
              /\ trueGap.hi < 256 => kfIn.dt = trueGap

C18_Witness ==
    /\ pc = "corrector"
    /\ oldTime = U32(65535, 65535)
    /\ time = U32(0, 14999)
    /\ dt_usec = U32(0, 15000)
    /\ kfIn.dt = U32(0, 15000)

\* C12: the six offsets and the orientation flag change only in the step in
\* which calibrate() computes them; no step of the control loop changes them.
C12_OffsetsWrittenOnce ==
    [][ /\ (offsets' # offsets \/ startPositionIsUp' # startPositionIsUp) =>
             /\ pc = "calibrate"
             /\ pc' = "seed"
             /\ ~calibReturned
        /\ InLoop =>
             /\ offsets' = offsets
             /\ startPositionIsUp' = startPositionIsUp ]_vars

C12_Witness ==
    /\ pc = "endCycle"
    /\ reads = 1
    /\ raw["ax"] = 32767
    /\ offsets = Six(-16384, -2, 2, -100, 40, 32767)
    /\ ~startPositionIsUp

\* C13: once the connectivity check has succeeded, calibrate() returns after
\* exactly 512 samples, the control loop is entered, and from then on control
\* cycles are completed again and again.
C13_StartupTerminates ==
    /\ [](pc = "startCalibration" =>
             <>(pc = "loop" /\ calibReturned /\ i = 512))
    /\ [](InLoop => <>(pc = "endCycle"))
    /\ [](pc = "endCycle" => <>(pc = "loop"))

C13_Witness ==
    /\ pc = "loop"
    /\ conn_ok
    /\ calibReturned
    /\ i = 512
    /\ prevKind # "none"

\* C14: getAccAngle(accX, accZ) is the four-quadrant angle of (accX, -accZ)
\* in degrees: 0 for (0, -1), 90 for (1, 0), -90 for (-1, 0), 180 or -180 for
\* (0, 1), each other input in the quadrant its signs give; it has a value
\* for every pair, also when accX or accZ is 0.
C14_AccAngleQuadrants ==
    pc = "angleDone" =>
        /\ accAngle \in -1800..1800
        /\ (accX = 0 /\ accZ < 0) => accAngle = 0
        /\ (accX > 0 /\ accZ = 0) => accAngle = 900
        /\ (accX < 0 /\ accZ = 0) => accAngle = -900
        /\ (accX = 0 /\ accZ > 0) => accAngle \in {1800, -1800}
        /\ (accX > 0 /\ accZ < 0) => accAngle \in 0..900
        /\ (accX > 0 /\ accZ > 0) => accAngle \in 900..1800
        /\ (accX < 0 /\ accZ < 0) => accAngle \in -900..0
        /\ (accX < 0 /\ accZ > 0) => accAngle \in -1800..-900
        /\ (accX > 0 /\ accX = -accZ) => accAngle = 450
        /\ (accX < 0 /\ accX = -accZ) => accAngle = -1350

C14_Witness ==
    /\ pc = "angleDone"
    /\ accX = 0
    /\ accZ = 1638400
    /\ accAngle = 1800

\* C15: calibrate() sets ax_offset to mean - 16384 when the mean of the ax
\* samples is greater than 0 and to mean + 16384 otherwise; afterwards a raw
\* ax reading equal to that mean is corrected by readSensor() to 16384 when
\* the orientation is up and to -16384 when it is down.
C15_GravityOffset ==
    LET mean == trueSum["ax"] \div 512
    IN  calibReturned =>
            /\ mean > 0 => offsets["ax"] = mean - 16384
            /\ ~(mean > 0) => offsets["ax"] = mean + 16384
            /\ (pc \in {"observe", "fusion", "corrector", "gate", "endCycle"}
                   /\ raw["ax"] = mean) =>
                  sample["ax"] = IF startPositionIsUp THEN 16384 ELSE -16384

C15_Witness ==
    /\ calibReturned
    /\ pc = "observe"
    /\ ~startPositionIsUp
    /\ raw["ax"] = -32768
    /\ offsets["ax"] = -16384
    /\ sample["ax"] = -16384

\* C16: each of the six values readSensor() leaves in ax .. gz equals the
\* difference raw - offset of its axis, for every reading and every set of
\* offsets calibrate() can produce.
C16_NoWrap ==
    pc \in {"observe", "fusion", "corrector", "gate", "endCycle"} =>
        \A a \in Axes : sample[a] = raw[a] - offsets[a]

\* the mean of the calibration samples of an axis, as calibrate() left it
CalMean(a) ==
    IF a # "ax" THEN offsets[a]
    ELSE IF startPositionIsUp THEN offsets[a] + 16384 ELSE offsets[a] - 16384

\* the quotient of C++'s integer division, which rounds towards zero
TruncDiv(n, d) == IF n >= 0 THEN n \div d ELSE -((-n) \div d)

\* the accumulators hold the exact sums, inside the range of int32_t
SumsExact ==
    \A a \in Axes :
        /\ sums[a] = trueSum[a]
        /\ sums[a] >= -2147483647 - 1
        /\ sums[a] <= 2147483647

NextStep(p) ==
    CASE p = "loop" -> "readSensor"
      [] p = "readSensor" -> "observe"
      [] p = "observe" -> "fusion"
      [] p = "fusion" -> "corrector"
      [] p = "corrector" -> "gate"
      [] p = "gate" -> "endCycle"
      [] p = "endCycle" -> "loop"

\* C19: a cycle runs clock read, sample acquisition, angle computation,
\* filter update, corrector update, gate, timestamp store, in this order; it
\* calls the filter once and the corrector once, the corrector also when the
\* gate stops the motors, both with the elapsed time measured at the start of
\* the cycle, not clamped.
C19_CycleOrder ==
    /\ [][ (InLoop /\ pc' # pc) => pc' = NextStep(pc) ]_vars
    /\ [](pc \in {"readSensor", "observe", "fusion"} =>
             (kfCalls = 0 /\ pidCalls = 0))
    /\ [](pc \in {"observe", "fusion", "corrector", "gate", "endCycle"} =>
             reads = 1)
    /\ [](pc = "corrector" =>
             (kfCalls = 1 /\ pidCalls = 0 /\ runCalls + stopCalls = 0))
    /\ [](pc = "gate" => runCalls + stopCalls = 0)
    /\ [](pc \in {"gate", "endCycle"} =>
             /\ kfCalls = 1 /\ pidCalls = 1
             /\ kfIn.called /\ pidIn.called
             /\ kfIn.angle = accAngle /\ kfIn.rate = gyroYRate
             /\ pidIn.angle = kalmanAngle
             /\ kfIn.dt = pidIn.dt
             /\ dt_usec = trueGap
             /\ dt_usec.hi < 256 => kfIn.dt = dt_usec
             /\ dt_usec.hi >= 256 => kfIn.dt.hi >= dt_usec.hi)
    /\ [](pc = "endCycle" => runCalls + stopCalls = 1)

C19_Witness ==
    /\ pc = "endCycle"
    /\ motor.kind = "stop"
    /\ kfCalls = 1
    /\ pidCalls = 1
    /\ dt_usec = U32(32768, 0)
    /\ pidIn.dt = U32(32768, 0)

\* C20: the motors are commanded by the gate alone: before the control loop
\* they have received neither a drive command nor a stop, and every cycle
\* gives them exactly one action, in its gate.
C20_OnlyTheGateActs ==
    [][ /\ (motor' # motor \/ runCalls' > runCalls \/ stopCalls' > stopCalls) =>
             pc = "gate"
        /\ pc = "gate" =>
             /\ runCalls + stopCalls = 0
             /\ runCalls' + stopCalls' = 1
             /\ motor'.kind = (IF runCalls' = 1 THEN "run" ELSE "stop")
        /\ pc = "endCycle" =>
             /\ runCalls + stopCalls = 1
             /\ motor' = motor
        /\ ~InLoop' =>
             /\ motor' = NoMotor
             /\ runCalls' = 0 /\ stopCalls' = 0 ]_vars

C20_Witness ==
    /\ pc = "endCycle"
    /\ prevKind = "stop"
    /\ runCalls = 1
    /\ stopCalls = 0
    /\ motor = [kind |-> "run", cmd |-> 0]

====
